---------------------------- MODULE Spec2Model ----------------------------
(***************************************************************************)
(* VesselVerse consensus pipeline: the batch driver                        *)
(* MedicalImageDataset.compute_staple (src/src/core/dataset.py), the       *)
(* per-case pipeline create_staple_consensus (src/src/core/staple.py) and  *)
(* the command line entry point main (src/scripts_py/compute_staple.py).   *)
(*                                                                         *)
(* Conventions of the model                                                *)
(*  - A volume is a line of voxels: size <<n, 1, 1>>, data a sequence of   *)
(*    length n.  On such a volume the 3-D ball of radius r meets the image *)
(*    in the voxels i-r .. i+r, so morphology is computed along the line.  *)
(*  - Real numbers are fixed point: probabilities, thresholds and          *)
(*    millimetres are integers counted in 1/Unit.  NaN is a value of its   *)
(*    own (IEEE: 0/0 is NaN, every comparison with NaN is false).          *)
(*  - A raised Python exception is a result record with status "raised".   *)
(*  - A path is the sequence of its components; a file name is the        *)
(*    sequence of the characters of its stem, so that the filename         *)
(*    processors can cut it.                                               *)
(*                                                                         *)
(* Spec is the command line tool run on a dataset directory, once or       *)
(* again; SpecCall is one direct call of create_staple_consensus;          *)
(* SpecStage applies one stage of the pipeline (thresholder, enhancement,  *)
(* estimation, normalizer, component labelling, output paths) to inputs    *)
(* of its own, and SpecStageFair adds the progress of the estimation       *)
(* loop; SpecSteps is create_staple_consensus statement by statement;      *)
(* SpecTrack is SegmentationTracker.track_history                          *)
(* (src/src/tracking/track_segmentations.py) round by round, and           *)
(* SpecTrackFair adds the progress of its loop.                            *)
(***************************************************************************)
EXTENDS Integers, Sequences, FiniteSets, TLC

\* Fixed-point resolution of the float values (1000 stands for 1.0).
Unit == 1000

\* IEEE NaN, as produced by 0/0 and by numpy statistics of an empty array.
NaN == 0 - 1

\* Cap on the EM iterations unrolled by the model.
MaxEMIter == 3

-----------------------------------------------------------------------------
(* Sequences and arithmetic helpers *)

RECURSIVE SumSeq(_)
SumSeq(s) == IF s = <<>> THEN 0 ELSE Head(s) + SumSeq(Tail(s))

Range(s) == {s[i] : i \in DOMAIN s}

Abs(x) == IF x < 0 THEN 0 - x ELSE x

\* A function on 1..n as the tuple of its values.
Materialize(f) == f \o <<>>

\* a / b on fixed-point values; 0/0 and anything with NaN is NaN.
FDiv(a, b) == IF a = NaN \/ b = NaN \/ b = 0 THEN NaN ELSE (a * Unit) \div b

\* a * b on fixed-point values.
FMul(a, b) == IF a = NaN \/ b = NaN THEN NaN ELSE (a * b) \div Unit

\* 1 - a on fixed-point values.
FOneMinus(a) == IF a = NaN THEN NaN ELSE Unit - a

\* Sum of fixed-point values, NaN as soon as one term is NaN.
FSum(s) == IF NaN \in Range(s) THEN NaN ELSE SumSeq(s)

-----------------------------------------------------------------------------
(* Images and files *)

\* What a path holds: nothing, bytes no reader accepts, or a volume.
NoFile == [kind |-> "absent"]

Corrupt == [kind |-> "corrupt"]

Image(size, spacing, origin, direction, data) ==
    [kind |-> "image", size |-> size, spacing |-> spacing,
     origin |-> origin, direction |-> direction, data |-> data]

NumVoxels(img) == Len(img.data)

\* sitk.ReadImage succeeds exactly on a readable volume.
Readable(f) == f.kind = "image"


-----------------------------------------------------------------------------
(* BinaryMaskNormalizer and SpatialConsistencyValidator *)

\* Lower cut of the multi-level branch: sitk.BinaryThreshold(lowerThreshold=1.1).
LabelCut == 1100

\* convert_to_binary_mask without the closing (seg > 0): a volume of at
\* most two distinct values is returned as it is.
convert_to_binary_mask_as_is(seg) ==
    LET cut == IF Cardinality(Range(seg.data)) > 2
               THEN [i \in DOMAIN seg.data |->
                        IF seg.data[i] >= LabelCut THEN 1 ELSE 0]
               ELSE seg.data
    IN [seg EXCEPT !.data = Materialize(cut)]

\* convert_to_binary_mask: more than two distinct values -> inside
\* [1.1, inf] becomes 1, the rest 0; then (seg > 0) cast to UInt8.
convert_to_binary_mask(seg) ==
    LET cut == IF Cardinality(Range(seg.data)) > 2
               THEN [i \in DOMAIN seg.data |->
                        IF seg.data[i] >= LabelCut THEN 1 ELSE 0]
               ELSE seg.data
    IN [seg EXCEPT !.data =
           Materialize([i \in DOMAIN cut |-> IF cut[i] > 0 THEN 1 ELSE 0])]

\* verify_segmentation_values: TRUE iff it does not raise, i.e. the sorted
\* distinct values are [0, 1], [0] or [1].
verify_segmentation_values(seg) ==
    Range(seg.data) \in {{0, 1}, {0}, {1}}

\* sitk.Image.CopyInformation raises when the two sizes differ.
CopyInformationRaises(seg, src) == seg.size # src.size

\* sitk.Image.CopyInformation: spacing, origin and direction of src
\* overwrite those of seg; the voxels and the size stay.
CopyInformation(seg, src) ==
    [seg EXCEPT !.spacing = src.spacing, !.origin = src.origin,
                !.direction = src.direction]

\* Relative tolerance of the spacing comparison: tolerance = 0.001.
ToleranceDen == 1000

\* np.allclose(a, b, rtol=tolerance): |a - b| <= atol + rtol * |b| on every
\* axis (atol = 1e-8 is below the resolution of the model).
AllClose(a, b) ==
    \A k \in DOMAIN a : Abs(a[k] - b[k]) * ToleranceDen <= Abs(b[k])

\* verify_spatial_consistency: "ok", or the ValueError it raises.
verify_spatial_consistency(reference_image, segmentations) ==
    IF segmentations = <<>> THEN "No segmentations provided"
    ELSE IF Len(reference_image.size) # 3 THEN "Expected 3D image"
    ELSE IF \E i \in DOMAIN segmentations :
               /\ \A j \in 1..(i-1) :
                     /\ segmentations[j].size = reference_image.size
                     /\ AllClose(segmentations[j].spacing, reference_image.spacing)
               /\ segmentations[i].size # reference_image.size
         THEN "different dimensions"
    ELSE IF \E i \in DOMAIN segmentations :
               ~AllClose(segmentations[i].spacing, reference_image.spacing)
         THEN "different spacing"
    ELSE "ok"

-----------------------------------------------------------------------------
(* MorphologicalPreprocessor *)

\* sitk.BinaryDilateImageFilter with SetKernelRadius(r), foreground 1.
BinaryDilate(data, r) ==
    [i \in DOMAIN data |->
        IF \E j \in DOMAIN data : Abs(i - j) <= r /\ data[j] = 1
        THEN 1 ELSE 0]

\* sitk.BinaryErodeImageFilter with SetKernelRadius(r): a voxel stays when
\* the whole kernel is foreground; outside the image counts as foreground
\* (BoundaryToForeground is on by default).
BinaryErode(data, r) ==
    [i \in DOMAIN data |->
        IF \A j \in DOMAIN data : Abs(i - j) <= r => data[j] = 1
        THEN 1 ELSE 0]

\* sitk.BinaryMorphologicalClosingImageFilter(r), SafeBorder on: the closing
\* of the unbounded grid, i.e. every kernel position covering the voxel
\* (also one centred outside the image) must meet the dilation.
BinaryMorphologicalClosing(data, r) ==
    LET n == Len(data)
        Dil(q) == \E s \in DOMAIN data : Abs(q - s) <= r /\ data[s] = 1
    IN [i \in DOMAIN data |->
           IF \A q \in (1 - r)..(n + r) : Abs(i - q) <= r => Dil(q)
           THEN 1 ELSE 0]

\* preprocess_segmentation: dilation by 1, then closing by 1, cast UInt8.
preprocess_segmentation(seg) ==
    [seg EXCEPT !.data =
        Materialize(BinaryMorphologicalClosing(
                        Materialize(BinaryDilate(seg.data, 1)), 1))]

-----------------------------------------------------------------------------
(* STAPLEEstimator: sitk.STAPLEImageFilter, foreground value 1 *)

\* Number of raters marking voxel v.
Votes(segs, v) == Cardinality({i \in DOMAIN segs : segs[i].data[v] = 1})

\* Initial W: per voxel the fraction of raters marking it.
InitialW(segs) ==
    [v \in DOMAIN segs[1].data |-> (Votes(segs, v) * Unit) \div Len(segs)]

\* Foreground prior g_t: the mean of the initial W (confidence weight 1).
Prior(W) == SumSeq(W) \div Len(W)

\* M-step, sensitivity of one rater: sum of W where it says foreground over
\* the sum of W (no guard: 0/0 is NaN).
Sensitivity(seg, W) ==
    FDiv(FSum([v \in DOMAIN W |-> IF seg.data[v] = 1 THEN W[v] ELSE 0]),
         FSum(W))

\* M-step, specificity of one rater: sum of 1-W where it says background
\* over the sum of 1-W.
Specificity(seg, W) ==
    FDiv(FSum([v \in DOMAIN W |->
                  IF W[v] = NaN THEN NaN
                  ELSE IF seg.data[v] = 1 THEN 0 ELSE Unit - W[v]]),
         FSum([v \in DOMAIN W |-> FOneMinus(W[v])]))

\* Product over the raters 1..k of p_i (q_i) or its complement at voxel v.
RECURSIVE Alpha(_, _, _, _)
Alpha(segs, p, v, k) ==
    IF k = 0 THEN Unit
    ELSE FMul(Alpha(segs, p, v, k - 1),
              IF segs[k].data[v] = 1 THEN p[k] ELSE FOneMinus(p[k]))

RECURSIVE Beta(_, _, _, _)
Beta(segs, q, v, k) ==
    IF k = 0 THEN Unit
    ELSE FMul(Beta(segs, q, v, k - 1),
              IF segs[k].data[v] = 1 THEN FOneMinus(q[k]) ELSE q[k])

\* E-step: W = g a / (g a + (1 - g) b).
EStep(segs, p, q, g) ==
    [v \in DOMAIN segs[1].data |->
        LET a == FMul(g, Alpha(segs, p, v, Len(segs)))
            b == FMul(Unit - g, Beta(segs, q, v, Len(segs)))
        IN IF a = NaN \/ b = NaN THEN NaN ELSE FDiv(a, a + b)]

\* The loop never leaves on its own account.
EMStopsNever(p, q, lastp, lastq, iter) == FALSE

\* The end of an iteration: the loop is left when no p_i, q_i moved (a NaN
\* never counts as a move) or at the cap.
EMStops(p, q, lastp, lastq, iter) ==
    \/ iter + 1 >= MaxEMIter
    \/ ~ \E i \in DOMAIN p :
            \/ p[i] # NaN /\ p[i] # lastp[i]
            \/ q[i] # NaN /\ q[i] # lastq[i]

\* The EM loop: M-step, E-step, then the test for leaving the loop.
RECURSIVE EMLoop(_, _, _, _, _, _)
EMAfterMStep(segs, g, p, q, lastp, lastq, iter) ==
    LET W2 == Materialize(EStep(segs, p, q, g))
    IN IF EMStops(p, q, lastp, lastq, iter) THEN W2
       ELSE EMLoop(segs, W2, g, p, q, iter + 1)

EMLoop(segs, W, g, lastp, lastq, iter) ==
    EMAfterMStep(segs, g,
                 Materialize([i \in DOMAIN segs |-> Sensitivity(segs[i], W)]),
                 Materialize([i \in DOMAIN segs |-> Specificity(segs[i], W)]),
                 lastp, lastq, iter)

\* staple_filter.Execute(segs): the probability map.
STAPLEExecute(segs) ==
    LET W0 == Materialize(InitialW(segs))
        none == [i \in DOMAIN segs |-> 0 - 10 * Unit]
    IN EMLoop(segs, W0, Prior(W0), none, none, 0)

-----------------------------------------------------------------------------
(* AdaptiveThresholder *)

\* consensus_prob > confidence_threshold, cast to UInt8.
FixedThreshold(prob, confidence_threshold) ==
    [v \in DOMAIN prob |->
        IF prob[v] # NaN /\ prob[v] > confidence_threshold THEN 1 ELSE 0]

\* vessel_mask: voxels marked by at least one segmentation.
VesselMask(segs) == {v \in DOMAIN segs[1].data : Votes(segs, v) > 0}

\* x > mean(P|region) - std(P|region), without square roots: with n values
\* of sum S and sum of squares Q, n*std = sqrt(n*Q - S*S).  An empty region
\* or a NaN in it makes the threshold NaN, and the comparison false.
AboveLower(x, prob, region) ==
    LET n == Cardinality(region)
        vals == [v \in DOMAIN prob |-> IF v \in region THEN prob[v] ELSE 0]
        S == SumSeq(vals)
        Q == SumSeq([v \in DOMAIN vals |-> vals[v] * vals[v]])
    IN /\ x # NaN
       /\ n > 0
       /\ \A v \in region : prob[v] # NaN
       /\ \/ n * x > S
          \/ (S - n * x) * (S - n * x) < n * Q - S * S

\* x > mean(P|region) + std(P|region).
AboveHigher(x, prob, region) ==
    LET n == Cardinality(region)
        vals == [v \in DOMAIN prob |-> IF v \in region THEN prob[v] ELSE 0]
        S == SumSeq(vals)
        Q == SumSeq([v \in DOMAIN vals |-> vals[v] * vals[v]])
    IN /\ x # NaN
       /\ n > 0
       /\ \A v \in region : prob[v] # NaN
       /\ n * x > S
       /\ (n * x - S) * (n * x - S) > n * Q - S * S

\* adaptive_staple_threshold with the two thresholds exchanged in np.where.
adaptive_staple_threshold_swapped(prob, segs) ==
    LET vessel == VesselMask(segs)
        rest == (DOMAIN prob) \ vessel
    IN [v \in DOMAIN prob |->
           IF v \in vessel
           THEN (IF AboveHigher(prob[v], prob, vessel) THEN 1 ELSE 0)
           ELSE (IF AboveLower(prob[v], prob, rest) THEN 1 ELSE 0)]

\* adaptive_staple_threshold with compute_optimal_thresholds: the lower
\* threshold inside the vessel mask, the higher one outside.
adaptive_staple_threshold(prob, segs) ==
    LET vessel == VesselMask(segs)
        rest == (DOMAIN prob) \ vessel
    IN [v \in DOMAIN prob |->
           IF v \in vessel
           THEN (IF AboveLower(prob[v], prob, vessel) THEN 1 ELSE 0)
           ELSE (IF AboveHigher(prob[v], prob, rest) THEN 1 ELSE 0)]

-----------------------------------------------------------------------------
(* VesselConnectivityEnhancer *)

\* pi in fixed point (np.pi).
Pi == 3142

\* sitk.ConnectedComponentImageFilter on a line: the maximal runs of 1.
Components(data) ==
    {c \in SUBSET (DOMAIN data) :
        /\ c # {}
        /\ \A v \in c : data[v] = 1
        /\ \A u, v \in c : \A w \in DOMAIN data : (u < w /\ w < v) => w \in c
        /\ \A w \in DOMAIN data :
              (w \notin c /\ \E v \in c : Abs(v - w) = 1) => data[w] = 0}

\* The voxels of a slice of GridSize[1] by GridSize[2] voxels, by
\* coordinates.
GridSize == <<3, 2>>

Grid == (1..GridSize[1]) \X (1..GridSize[2])

\* Two voxels share a face: the neighbourhood of
\* sitk.ConnectedComponentImageFilter as constructed, FullyConnected off.
FaceNeighbours(u, v) == Abs(u[1] - v[1]) + Abs(u[2] - v[2]) = 1

\* The foreground voxels reached from a set through face neighbours.
RECURSIVE Flood(_, _)
Flood(seen, foreground) ==
    LET more == seen \cup {v \in foreground :
                              \E u \in seen : FaceNeighbours(u, v)}
    IN IF more = seen THEN seen ELSE Flood(more, foreground)

\* sitk.ConnectedComponentImageFilter().Execute on a slice given by its
\* foreground voxels; on a line this is Components.
GridComponents(foreground) == {Flood({v}, foreground) : v \in foreground}

\* stats_filter.GetPrincipalAxes(label): the entries of the axes matrix, a
\* rotation; for a run along the line its rows are coordinate axes.
PrincipalAxes(component) == {0, Unit}

SetMin(S) == CHOOSE x \in S : \A y \in S : x <= y

SetMax(S) == CHOOSE x \in S : \A y \in S : y <= x

\* The k-th smallest entry of a non-empty sequence.
KthSmallest(s, k) ==
    CHOOSE x \in Range(s) :
        /\ Cardinality({i \in DOMAIN s : s[i] < x}) < k
        /\ Cardinality({i \in DOMAIN s : s[i] <= x}) >= k

\* np.median of a non-empty sequence.
Median(s) ==
    LET n == Len(s)
    IN IF n % 2 = 1 THEN KthSmallest(s, (n + 1) \div 2)
       ELSE (KthSmallest(s, n \div 2) + KthSmallest(s, n \div 2 + 1)) \div 2

\* analyze_vessel_characteristics raises when some segmentation has no
\* component: np.min of an empty list is a ValueError.
AnalyzeRaises(segs) == \E i \in DOMAIN segs : Components(segs[i].data) = {}

\* analyze_vessel_characteristics, the two statistics the pipeline uses;
\* every length is an axes entry times min(spacing).
analyze_vessel_characteristics(segs, original_image) ==
    LET minsp == SetMin(Range(original_image.spacing))
        comps(i) == Components(segs[i].data)
        minor(c) == (SetMin(PrincipalAxes(c)) * minsp) \div Unit
        major(c) == (SetMax(PrincipalAxes(c)) * minsp) \div Unit
        AsSeq(S) == CHOOSE f \in [1..Cardinality(S) -> S] : Range(f) = S
        diameters(i) == [k \in 1..Cardinality(comps(i)) |->
                            minor(AsSeq(comps(i))[k])]
        med_diameter(i) == Median(diameters(i))
        min_length(i) == SetMin({major(c) : c \in comps(i)})
    IN [recommended_radius_mm |->
            Median([i \in DOMAIN segs |-> med_diameter(i) \div 2]),
        recommended_min_length_mm |->
            Median([i \in DOMAIN segs |-> min_length(i)])]

\* round(a / b) for b > 0: halves go to the even neighbour.
RoundHalfEven(a, b) ==
    LET q == a \div b
        r == a - q * b
    IN IF 2 * r < b THEN q
       ELSE IF 2 * r > b THEN q + 1
       ELSE IF q % 2 = 0 THEN q ELSE q + 1

\* kernel_radius = int(round(vessel_radius_mm / min(spacing))).
KernelRadius(original_image, vessel_radius_mm) ==
    RoundHalfEven(vessel_radius_mm, SetMin(Range(original_image.spacing)))

\* min_object_size = int(pi * radius^2 * length / prod(spacing)): int()
\* drops the fraction.
MinObjectSize(original_image, vessel_radius_mm, min_vessel_length_mm) ==
    LET sp == original_image.spacing
        cylinder == (((vessel_radius_mm * vessel_radius_mm) \div Unit)
                        * min_vessel_length_mm) \div Unit
        voxel_volume == (((sp[1] * sp[2]) \div Unit) * sp[3]) \div Unit
    IN (Pi * cylinder) \div (Unit * voxel_volume)

\* enhance_vessel_connectivity with a relabelling that also drops the
\* components of exactly the minimum size.
enhance_vessel_connectivity_strict(binary_mask, original_image, vessel_radius_mm, min_vessel_length_mm) ==
    LET kernel_radius == KernelRadius(original_image, vessel_radius_mm)
        min_object_size == MinObjectSize(original_image, vessel_radius_mm,
                                         min_vessel_length_mm)
        connected == BinaryErode(BinaryDilate(binary_mask, kernel_radius),
                                 kernel_radius)
        kept == {c \in Components(connected) : Cardinality(c) > min_object_size}
    IN [v \in DOMAIN connected |-> IF \E c \in kept : v \in c THEN 1 ELSE 0]

\* enhance_vessel_connectivity: dilate and erode by the kernel radius, then
\* RelabelComponent drops the components below the minimum size.
enhance_vessel_connectivity(binary_mask, original_image, vessel_radius_mm, min_vessel_length_mm) ==
    LET kernel_radius == KernelRadius(original_image, vessel_radius_mm)
        min_object_size == MinObjectSize(original_image, vessel_radius_mm,
                                         min_vessel_length_mm)
        connected == BinaryErode(BinaryDilate(binary_mask, kernel_radius),
                                 kernel_radius)
        kept == {c \in Components(connected) : Cardinality(c) >= min_object_size}
    IN [v \in DOMAIN connected |-> IF \E c \in kept : v \in c THEN 1 ELSE 0]

-----------------------------------------------------------------------------
(* ConsensusPipelineOrchestrator: create_staple_consensus *)

\* The read loop with an except clause that skips the path instead of
\* raising ValueError: a mask that cannot be loaded is dropped like a
\* missing one.
LoadOutcomeSkipsOnError(f, original_image) ==
    IF f.kind = "absent" THEN "dropped"
    ELSE IF ~Readable(f) THEN "dropped"
    ELSE IF ~verify_segmentation_values(convert_to_binary_mask(f)) THEN "dropped"
    ELSE IF CopyInformationRaises(convert_to_binary_mask(f), original_image)
         THEN "dropped"
    ELSE "loaded"

\* What the read loop does with one path: the file is missing (the path is
\* dropped), or reading, normalising, checking or CopyInformation raises,
\* or the mask is appended.
LoadOutcome(f, original_image) ==
    IF f.kind = "absent" THEN "dropped"
    ELSE IF ~Readable(f) THEN "raises"
    ELSE IF ~verify_segmentation_values(convert_to_binary_mask(f)) THEN "raises"
    ELSE IF CopyInformationRaises(convert_to_binary_mask(f), original_image)
         THEN "raises"
    ELSE "loaded"

\* The mask the read loop appends for a loaded path.
LoadedMask(f, original_image) ==
    CopyInformation(convert_to_binary_mask(f), original_image)

\* The segmentations list after the read loop (no path raised).
RECURSIVE LoadAll(_, _, _)
LoadAll(fsys, paths, original_image) ==
    IF paths = <<>> THEN <<>>
    ELSE LET f == fsys[Head(paths)]
             rest == LoadAll(fsys, Tail(paths), original_image)
         IN IF LoadOutcome(f, original_image) = "loaded"
            THEN <<LoadedMask(f, original_image)>> \o rest
            ELSE rest

\* ConsensusMask without the final CopyInformation: the mask keeps the
\* header sitk.GetImageFromArray gives it.
ConsensusMaskArrayHeader(segmentations, original_image, confidence_threshold, do_preprocessing, do_adaptive_thresholding, do_vessel_enhancement) ==
    LET preprocessed_segs ==
            IF do_preprocessing
            THEN [i \in DOMAIN segmentations |->
                     preprocess_segmentation(segmentations[i])]
            ELSE segmentations
        consensus_prob == STAPLEExecute(preprocessed_segs)
        thresholded ==
            IF do_adaptive_thresholding
            THEN adaptive_staple_threshold(consensus_prob, preprocessed_segs)
            ELSE FixedThreshold(consensus_prob, confidence_threshold)
        vessel_stats ==
            analyze_vessel_characteristics(preprocessed_segs, original_image)
        binary_consensus ==
            IF do_vessel_enhancement /\ ~AnalyzeRaises(preprocessed_segs)
            THEN enhance_vessel_connectivity(
                     thresholded, original_image,
                     vessel_stats.recommended_radius_mm,
                     vessel_stats.recommended_min_length_mm)
            ELSE thresholded
    IN Image(original_image.size, <<Unit, Unit, Unit>>,
             "zero_origin", "identity_direction",
             [v \in DOMAIN binary_consensus |-> binary_consensus[v] * Unit])

\* ConsensusMask with an except clause that blanks the mask: a failed
\* enhancement leaves an all-background consensus.
ConsensusMaskBlankOnFailure(segmentations, original_image, confidence_threshold, do_preprocessing, do_adaptive_thresholding, do_vessel_enhancement) ==
    LET preprocessed_segs ==
            IF do_preprocessing
            THEN [i \in DOMAIN segmentations |->
                     preprocess_segmentation(segmentations[i])]
            ELSE segmentations
        consensus_prob == STAPLEExecute(preprocessed_segs)
        thresholded ==
            IF do_adaptive_thresholding
            THEN adaptive_staple_threshold(consensus_prob, preprocessed_segs)
            ELSE FixedThreshold(consensus_prob, confidence_threshold)
        vessel_stats ==
            analyze_vessel_characteristics(preprocessed_segs, original_image)
        binary_consensus ==
            IF ~do_vessel_enhancement THEN thresholded
            ELSE IF AnalyzeRaises(preprocessed_segs)
            THEN [v \in DOMAIN thresholded |-> 0]
            ELSE enhance_vessel_connectivity(
                     thresholded, original_image,
                     vessel_stats.recommended_radius_mm,
                     vessel_stats.recommended_min_length_mm)
    IN Image(original_image.size, original_image.spacing,
             original_image.origin, original_image.direction,
             [v \in DOMAIN binary_consensus |-> binary_consensus[v] * Unit])

\* The consensus mask of the loaded segmentations: preprocess, estimate,
\* threshold, enhance (a failed enhancement leaves the thresholded mask),
\* then CopyInformation(original_image).  The voxels of the written file are
\* 0 and 1 (0 and Unit in fixed point).
ConsensusMask(segmentations, original_image, confidence_threshold, do_preprocessing, do_adaptive_thresholding, do_vessel_enhancement) ==
    LET preprocessed_segs ==
            IF do_preprocessing
            THEN [i \in DOMAIN segmentations |->
                     preprocess_segmentation(segmentations[i])]
            ELSE segmentations
        consensus_prob == STAPLEExecute(preprocessed_segs)
        thresholded ==
            IF do_adaptive_thresholding
            THEN adaptive_staple_threshold(consensus_prob, preprocessed_segs)
            ELSE FixedThreshold(consensus_prob, confidence_threshold)
        vessel_stats ==
            analyze_vessel_characteristics(preprocessed_segs, original_image)
        binary_consensus ==
            IF do_vessel_enhancement /\ ~AnalyzeRaises(preprocessed_segs)
            THEN enhance_vessel_connectivity(
                     thresholded, original_image,
                     vessel_stats.recommended_radius_mm,
                     vessel_stats.recommended_min_length_mm)
            ELSE thresholded
    IN Image(original_image.size, original_image.spacing,
             original_image.origin, original_image.direction,
             [v \in DOMAIN binary_consensus |-> binary_consensus[v] * Unit])

\* A result of create_staple_consensus: how it ended ("returned" a mask,
\* "none" for the bare return, "raised"), the error, the number of masks
\* loaded, whether STAPLE ran, and the file system it leaves.
Result(status, error, loaded, estimated, fsys) ==
    [status |-> status, error |-> error, loaded |-> loaded,
     estimated |-> estimated, fs |-> fsys]

\* create_staple_consensus.  write_ok is the environment: whether mkdir and
\* sitk.WriteImage succeed.
create_staple_consensus(fsys, original_image_path, segmentation_paths, output_path, confidence_threshold, do_preprocessing, do_adaptive_thresholding, do_vessel_enhancement, write_ok) ==
    IF Len(segmentation_paths) < 2
    THEN Result("raised", "STAPLE requires at least 2 segmentations", 0, FALSE, fsys)
    ELSE IF ~Readable(fsys[original_image_path])
    THEN Result("raised", "Error reading original image", 0, FALSE, fsys)
    ELSE
    LET original_image == fsys[original_image_path]
        segmentations == LoadAll(fsys, segmentation_paths, original_image)
        checked == verify_spatial_consistency(original_image, segmentations)
    IN IF \E i \in DOMAIN segmentation_paths :
             LoadOutcome(fsys[segmentation_paths[i]], original_image) = "raises"
       THEN Result("raised", "Error reading segmentation", 0, FALSE, fsys)
       ELSE IF segmentations = <<>>
       THEN Result("none", "No valid segmentations found", 0, FALSE, fsys)
       ELSE IF checked # "ok"
       THEN Result("raised", checked, Len(segmentations), FALSE, fsys)
       ELSE IF ~write_ok
       THEN Result("raised", "Error saving consensus segmentation",
                   Len(segmentations), TRUE, fsys)
       ELSE Result("returned", "", Len(segmentations), TRUE,
                   [fsys EXCEPT ![output_path] =
                       ConsensusMask(segmentations, original_image,
                                     confidence_threshold, do_preprocessing,
                                     do_adaptive_thresholding,
                                     do_vessel_enhancement)])

-----------------------------------------------------------------------------
(* Registry, dataset and paths *)

\* Number of cases (files of the base model directory) of the dataset.
NumCases == 2

\* Number of times the command line tool is run on the same directory.
MaxRuns == 2

\* ModelRegistry._register_default_models: the model names, in order.
RegistryModels ==
    <<"IXI_TOT", "COW_TOT", "STAPLE", "STAPLE_base", "StochasticAL",
      "nnUNet", "A2V", "COW_SEG", "JOB-VS", "JOB-VS-SHINY-1",
      "JOB-VS-SHINY-2", "Filtering", "ExpertAnnotations", "ExpertVAL",
      "COSTA", "IXI_EXP">>

\* DatasetRegistry._register_default_datasets: supported_models of "IXI".
SupportedModels ==
    {"IXI_TOT", "STAPLE", "STAPLE_base", "StochasticAL", "nnUNet", "A2V",
     "Filtering", "ExpertAnnotations", "ExpertVAL"}

\* f'{self.config.name}_{self.config.base_model_name}' for "IXI".
BaseModel == "IXI_TOT"

\* MedicalImageDataset._setup_models: every registered model that is not the
\* base model and is supported by the dataset, in registry order.
IsListedModel(name) == name # BaseModel /\ name \in SupportedModels

models_list == SelectSeq(RegistryModels, IsListedModel)

\* The base path given on the command line, as path components.
base_path == <<"..", "VESSELVERSE_DATA_IXI">>

\* File names of the cases in sorted order, each the characters of its
\* stem (every file ends in ".nii.gz", and no name carries "-MRA" or "-CTA").
CaseFiles ==
    << <<"c", "1">>, <<"c", "1", "0">>, <<"c", "2">>, <<"c", "2", "0">> >>

Cases == 1..NumCases

\* self.paths[model_name] / source_path.relative_to(self.paths[base_model])
RawPath(model_name, case) == base_path \o <<model_name, CaseFiles[case]>>

\* sorted(self.files)[case]
SourcePath(case) == RawPath(BaseModel, case)

AllPaths == {RawPath(m, c) : m \in SupportedModels, c \in Cases}

\* Path.exists()
Exists(fsys, path) == path \in DOMAIN fsys /\ fsys[path].kind # "absent"

\* path.with_name(name)
WithName(path, name) == SubSeq(path, 1, Len(path) - 1) \o <<name>>

\* process_nnunet: the name without its last character if that file exists.
process_nnunet(fsys, path) ==
    LET base == path[Len(path)]
        shorter == WithName(path, SubSeq(base, 1, Len(base) - 1))
    IN IF ~Exists(fsys, shorter) THEN path ELSE shorter

\* get_model_path without the assert: the model directory's path for the
\* case after the model's filename processor.  The directories hold no
\* "restored_*_vessel_mask" and no "*_pred" file, so process_stochastic and
\* process_a2v keep the name.
get_model_path(fsys, model_name, case) ==
    IF model_name = "nnUNet"
    THEN process_nnunet(fsys, RawPath(model_name, case))
    ELSE RawPath(model_name, case)

\* get_model_path(source_path, model): TRUE iff the assert passes.
ModelPathFound(fsys, model_name, case) ==
    Exists(fsys, get_model_path(fsys, model_name, case))

\* The check of compute_staple with the bound off by one: only an empty
\* list is insufficient.
InsufficientPathsOnlyIfEmpty(paths) == Len(paths) < 1

\* len(segmentation_paths) < 2
InsufficientPaths(paths) == Len(paths) < 2

\* The loop of compute_staple over models_list[1..k]: the paths found.
RECURSIVE FoundPaths(_, _, _)
FoundPaths(fsys, case, k) ==
    IF k = 0 THEN <<>>
    ELSE LET before == FoundPaths(fsys, case, k - 1)
         IN IF ModelPathFound(fsys, models_list[k], case)
            THEN Append(before, get_model_path(fsys, models_list[k], case))
            ELSE before

SegmentationPaths(fsys, case) == FoundPaths(fsys, case, Len(models_list))

\* str(path).replace('/STAPLE/', '/STAPLE_base/') on the components: a
\* component "STAPLE" with a separator on both sides, matches not
\* overlapping (a separator belongs to one match).
RECURSIVE ReplaceFrom(_, _, _)
ReplaceFrom(path, i, prev_replaced) ==
    IF i > Len(path) THEN <<>>
    ELSE LET hit == /\ i > 1
                    /\ i < Len(path)
                    /\ ~prev_replaced
                    /\ path[i] = "STAPLE"
         IN <<IF hit THEN "STAPLE_base" ELSE path[i]>>
               \o ReplaceFrom(path, i + 1, hit)

BaseOutputPath(output_path) == ReplaceFrom(output_path, 1, FALSE)

-----------------------------------------------------------------------------
(* The directories the tool is run on *)

RefSize == <<4, 1, 1>>

RefSpacing == <<1000, 1000, 1000>>

\* A readable reference image.
RefImage ==
    Image(RefSize, RefSpacing, "ref_origin", "ref_direction", <<0, 0, 0, 0>>)

\* A rater mask file congruent with the reference (its own origin).
Mask(data) == Image(RefSize, RefSpacing, "seg_origin", "ref_direction", data)

MaskA == Mask(<<0, 0, 1000, 1000>>)

MaskB == Mask(<<1000, 1000, 0, 1000>>)

\* A rater that leaves the first voxel to the background, as MaskA does.
MaskC == Mask(<<0, 1000, 1000, 0>>)

\* A rater that marks no voxel.
MaskEmpty == Mask(<<0, 0, 0, 0>>)

\* A multi-level label file: labels 0, 1, 2.
MaskLabels == Mask(<<0, 1000, 2000, 2000>>)

\* A mask with other voxel dimensions.
MaskOtherSize ==
    Image(<<3, 1, 1>>, RefSpacing, "seg_origin", "ref_direction",
          <<0, 1000, 1000>>)

\* A mask of the reference's dimensions whose spacing is 20% off on one axis.
MaskOtherSpacing ==
    Image(RefSize, <<1000, 1000, 1200>>, "seg_origin", "ref_direction",
          <<1000, 1000, 0, 1000>>)

\* A consensus file left by an earlier run of the tool.
OldConsensus ==
    Image(RefSize, RefSpacing, "ref_origin", "ref_direction",
          <<1000, 0, 0, 0>>)

\* The files of one case: the reference image, three source segmentations
\* and the two consensus outputs; the other model directories are empty.
CaseLayout(ref, sal, nnunet, a2v, staple, staple_base) ==
    [IXI_TOT |-> ref, StochasticAL |-> sal, nnUNet |-> nnunet, A2V |-> a2v,
     STAPLE |-> staple, STAPLE_base |-> staple_base]

\* The cases a dataset directory is drawn from: two raters; two raters and
\* both outputs of an earlier run; one rater and an earlier enhanced output;
\* one rater; a rater of other dimensions; a rater of other spacing; an
\* unreadable rater file.
CaseLayouts ==
    { CaseLayout(RefImage, MaskA, MaskB, NoFile, NoFile, NoFile),
      CaseLayout(RefImage, MaskA, MaskB, NoFile, OldConsensus, OldConsensus),
      CaseLayout(RefImage, MaskA, NoFile, NoFile, OldConsensus, NoFile),
      CaseLayout(RefImage, MaskA, NoFile, NoFile, NoFile, NoFile),
      CaseLayout(RefImage, MaskA, MaskOtherSize, NoFile, NoFile, NoFile),
      CaseLayout(RefImage, MaskA, MaskOtherSpacing, NoFile, NoFile, NoFile),
      CaseLayout(RefImage, MaskA, Corrupt, NoFile, NoFile, NoFile) }

\* The cases the pipeline is called on directly: also a multi-level label
\* file as third rater, two raters that agree on a background voxel, and
\* an unreadable reference image.
DirectLayouts ==
    CaseLayouts \cup
    { CaseLayout(RefImage, MaskA, MaskB, MaskLabels, NoFile, NoFile),
      CaseLayout(RefImage, MaskA, MaskC, NoFile, NoFile, NoFile),
      CaseLayout(RefImage, MaskA, MaskC, MaskEmpty, NoFile, NoFile),
      CaseLayout(RefImage, MaskEmpty, MaskEmpty, NoFile, NoFile, NoFile),
      CaseLayout(Corrupt, MaskA, MaskB, NoFile, NoFile, NoFile) }

\* The file system holding one layout per case.
FileSystem(layout) ==
    [path \in AllPaths |->
        LET c == CHOOSE c \in Cases : path[Len(path)] = CaseFiles[c]
            m == path[Len(path) - 1]
        IN IF m \in DOMAIN layout[c] THEN layout[c][m] ELSE NoFile]

\* staple_params.yaml after merging: each key may be missing.
StapleParams ==
    { [visualize |-> FALSE],
      [force_recompute |-> TRUE],
      [confidence_threshold |-> 500],
      [force_recompute |-> TRUE, confidence_threshold |-> 500] }

\* dict.get(key, default)
Get(params, key, default) ==
    IF key \in DOMAIN params THEN params[key] ELSE default

\* The fallback of main: staple_params.get('confidence_threshold', 0.8).
MainDefaultThreshold == 800

\* The default of create_staple_consensus: confidence_threshold = 0.5.
DefaultThreshold == 500

-----------------------------------------------------------------------------
(* main and MedicalImageDataset.compute_staple as a state machine *)

VARIABLES
    fs,                 \* the files under the base path
    staple_params,      \* the merged parameters main loaded
    run,                \* how many times main was started
    pc,                 \* where main is: "loop", "enhanced", "base",
                        \* "verify", "exit", or "raised" (left by an exception)
    idx,                \* position in sorted(self.files)
    segmentation_paths, \* the list built for the current case
    calls,              \* the pipeline invocations of this run, in order
    visits,             \* what the loop decided for each case of this run
    missing_cases,      \* result of verify_staple_existence
    prev_fs,            \* the files as the previous run left them
    prev_pc             \* how the previous run ended ("none" before any)

vars == <<fs, staple_params, run, pc, idx, segmentation_paths, calls, visits,
          missing_cases, prev_fs, prev_pc>>

\* The arguments main passes to compute_staple.
force_recompute == Get(staple_params, "force_recompute", FALSE)

confidence_threshold == Get(staple_params, "confidence_threshold", MainDefaultThreshold)

\* output_path = self.get_model_path(source_path, 'STAPLE', do_not_verify=True)
OutputPath(case) == RawPath("STAPLE", case)

Init ==
    /\ \E layout \in [Cases -> CaseLayouts] : fs = FileSystem(layout)
    /\ staple_params \in StapleParams
    /\ run = 1
    /\ pc = "loop"
    /\ idx = 1
    /\ segmentation_paths = <<>>
    /\ calls = <<>>
    /\ visits = <<>>
    /\ missing_cases = {}
    /\ prev_fs = fs
    /\ prev_pc = "none"

\* One invocation as the batch records it.
Call(case, kind, output_path, threshold, pre, adaptive, enhance, result) ==
    [case |-> case, kind |-> kind,
     original_image_path |-> SourcePath(case),
     segmentation_paths |-> segmentation_paths,
     output_path |-> output_path,
     confidence_threshold |-> threshold,
     do_preprocessing |-> pre,
     do_adaptive_thresholding |-> adaptive,
     do_vessel_enhancement |-> enhance,
     status |-> result.status, error |-> result.error,
     loaded |-> result.loaded, estimated |-> result.estimated]

\* Loop body, first exit: the enhanced output exists and recomputation is
\* not forced.
SkipExisting ==
    /\ pc = "loop"
    /\ idx <= NumCases
    /\ Exists(fs, OutputPath(idx)) /\ ~force_recompute
    /\ visits' = Append(visits, [case |-> idx, what |-> "exists"])
    /\ idx' = idx + 1
    /\ UNCHANGED <<fs, staple_params, run, pc, segmentation_paths, calls,
                   missing_cases, prev_fs, prev_pc>>

\* Loop body, second exit: fewer than 2 segmentation paths were found.
SkipInsufficient ==
    /\ pc = "loop"
    /\ idx <= NumCases
    /\ ~(Exists(fs, OutputPath(idx)) /\ ~force_recompute)
    /\ InsufficientPaths(SegmentationPaths(fs, idx))
    /\ visits' = Append(visits, [case |-> idx, what |-> "insufficient"])
    /\ idx' = idx + 1
    /\ UNCHANGED <<fs, staple_params, run, pc, segmentation_paths, calls,
                   missing_cases, prev_fs, prev_pc>>

\* Loop body up to the first invocation: the path list is fixed here.
StartCase ==
    /\ pc = "loop"
    /\ idx <= NumCases
    /\ ~(Exists(fs, OutputPath(idx)) /\ ~force_recompute)
    /\ ~InsufficientPaths(SegmentationPaths(fs, idx))
    /\ segmentation_paths' = SegmentationPaths(fs, idx)
    /\ visits' = Append(visits, [case |-> idx, what |-> "processing"])
    /\ pc' = "enhanced"
    /\ UNCHANGED <<fs, staple_params, run, idx, calls, missing_cases,
                   prev_fs, prev_pc>>

\* The first invocation: create_staple_consensus_fn(source, paths, output,
\* **kwargs), the do_* flags at their defaults.  An exception leaves
\* compute_staple and main.
EnhancedRun ==
    /\ pc = "enhanced"
    /\ \E write_ok \in BOOLEAN :
         \E result \in {create_staple_consensus(
                           fs, SourcePath(idx), segmentation_paths,
                           OutputPath(idx), confidence_threshold,
                           TRUE, TRUE, TRUE, write_ok)} :
            /\ fs' = result.fs
            /\ calls' = Append(calls,
                   Call(idx, "enhanced", OutputPath(idx), confidence_threshold,
                        TRUE, TRUE, TRUE, result))
            /\ pc' = IF result.status = "raised" THEN "raised" ELSE "base"
    /\ UNCHANGED <<staple_params, run, idx, segmentation_paths, visits,
                   missing_cases, prev_fs, prev_pc>>

\* The second invocation, with the three do_* flags overridden to False,
\* written to the path with '/STAPLE/' replaced.
BaseRun ==
    /\ pc = "base"
    /\ \E write_ok \in BOOLEAN :
         \E result \in {create_staple_consensus(
                           fs, SourcePath(idx), segmentation_paths,
                           BaseOutputPath(OutputPath(idx)),
                           confidence_threshold, FALSE, FALSE, FALSE, write_ok)} :
            /\ fs' = result.fs
            /\ calls' = Append(calls,
                   Call(idx, "base", BaseOutputPath(OutputPath(idx)),
                        confidence_threshold, FALSE, FALSE, FALSE, result))
            /\ pc' = IF result.status = "raised" THEN "raised" ELSE "loop"
            /\ idx' = IF result.status = "raised" THEN idx ELSE idx + 1
    /\ UNCHANGED <<staple_params, run, segmentation_paths, visits,
                   missing_cases, prev_fs, prev_pc>>

\* The loop is exhausted: compute_staple returns to main.
LoopEnd ==
    /\ pc = "loop"
    /\ idx > NumCases
    /\ pc' = "verify"
    /\ UNCHANGED <<fs, staple_params, run, idx, segmentation_paths, calls,
                   visits, missing_cases, prev_fs, prev_pc>>

\* verify_staple_existence and the metrics of main: the cases whose
\* enhanced output is not on disk.
Verify ==
    /\ pc = "verify"
    /\ missing_cases' = {c \in Cases : ~Exists(fs, OutputPath(c))}
    /\ pc' = "exit"
    /\ UNCHANGED <<fs, staple_params, run, idx, segmentation_paths, calls,
                   visits, prev_fs, prev_pc>>

\* The tool is started again on the same directory with the same
\* parameters.
Rerun ==
    /\ pc \in {"exit", "raised"}
    /\ run < MaxRuns
    /\ run' = run + 1
    /\ pc' = "loop"
    /\ idx' = 1
    /\ segmentation_paths' = <<>>
    /\ calls' = <<>>
    /\ visits' = <<>>
    /\ missing_cases' = {}
    /\ prev_fs' = fs
    /\ prev_pc' = pc
    /\ UNCHANGED <<fs, staple_params>>

Next ==
    \/ SkipExisting
    \/ SkipInsufficient
    \/ StartCase
    \/ EnhancedRun
    \/ BaseRun
    \/ LoopEnd
    \/ Verify
    \/ Rerun

Spec == Init /\ [][Next]_vars

-----------------------------------------------------------------------------
(* create_staple_consensus called directly, as a library function *)

\* The rater paths a caller may name, whether or not the files exist.
RaterModels == {"StochasticAL", "nnUNet", "A2V"}

\* Path lists of a case: every list without repetition over its rater paths.
PathLists(case) ==
    {paths \in UNION {[1..n -> {RawPath(m, case) : m \in RaterModels}] :
                         n \in 0..Cardinality(RaterModels)} :
        \A i, j \in DOMAIN paths : i # j => paths[i] # paths[j]}

\* The thresholds a caller passes: the function's default or main's fallback.
CallThresholds == {DefaultThreshold, MainDefaultThreshold}

\* The first case is drawn from DirectLayouts, the others hold two raters.
InitCall ==
    /\ \E first \in DirectLayouts :
         fs = FileSystem([c \in Cases |->
                  IF c = 1 THEN first
                  ELSE CaseLayout(RefImage, MaskA, MaskB, NoFile, NoFile, NoFile)])
    /\ staple_params = [visualize |-> FALSE]
    /\ run = 1
    /\ pc = "caller"
    /\ idx = 1
    /\ segmentation_paths = <<>>
    /\ calls = <<>>
    /\ visits = <<>>
    /\ missing_cases = {}
    /\ prev_fs = fs
    /\ prev_pc = "none"

\* The caller fixes the path list.
ChooseArguments ==
    /\ pc = "caller"
    /\ segmentation_paths' \in PathLists(idx)
    /\ pc' = "call"
    /\ UNCHANGED <<fs, staple_params, run, idx, calls, visits, missing_cases,
                   prev_fs, prev_pc>>

\* One call of create_staple_consensus with any threshold and flags.
DirectCall ==
    /\ pc = "call"
    /\ \E threshold \in CallThresholds, pre, adaptive, enhance, write_ok \in BOOLEAN :
         \E result \in {create_staple_consensus(
                           fs, SourcePath(idx), segmentation_paths,
                           OutputPath(idx), threshold, pre, adaptive, enhance,
                           write_ok)} :
            /\ fs' = result.fs
            /\ calls' = Append(calls,
                   Call(idx, "direct", OutputPath(idx), threshold, pre,
                        adaptive, enhance, result))
            /\ pc' = IF result.status = "raised" THEN "raised" ELSE "exit"
    /\ UNCHANGED <<staple_params, run, idx, segmentation_paths, visits,
                   missing_cases, prev_fs, prev_pc>>

NextCall ==
    \/ ChooseArguments
    \/ DirectCall

SpecCall == InitCall /\ [][NextCall]_vars

-----------------------------------------------------------------------------
(* The stages of the pipeline applied to inputs of their own *)

\* Probabilities a map handed to the thresholder is drawn from.
ProbValues == {NaN, 100, 400, 600, 900}

\* Every binary volume on the reference grid.
BinaryVolumes == {Materialize(d) : d \in [1..RefSize[1] -> {0, 1}]}

\* A binarised rater mask after CopyInformation.
RaterImage(data) ==
    Image(RefSize, RefSpacing, "ref_origin", "ref_direction", data)

\* The rater sets handed to the estimation: every pair of binary masks,
\* and the pairs joined by an empty, a full or a partial third mask.
RaterSets ==
    {<<RaterImage(a), RaterImage(b)>> : a, b \in BinaryVolumes} \cup
    {<<RaterImage(a), RaterImage(b), RaterImage(c)>> :
        a, b \in BinaryVolumes,
        c \in {<<0, 0, 0, 0>>, <<0, 1, 1, 0>>, <<1, 1, 1, 1>>}}

\* The values a raw label volume is drawn from: 0, 0.5, 1, 1.1, 2.
LabelValues == {0, 500, 1000, 1100, 2000}

\* The vessel radii and minimum lengths handed to the enhancement, in mm.
RadiiMm == {0, 500, 1000, 1500}

LengthsMm == {0, 1000, 2000, 3000, 4000}

InitStage ==
    /\ fs = FileSystem([c \in Cases |->
                CaseLayout(RefImage, MaskA, MaskB, NoFile, NoFile, NoFile)])
    /\ staple_params = [visualize |-> FALSE]
    /\ run = 1
    /\ pc = "stage"
    /\ idx = 1
    /\ segmentation_paths = <<>>
    /\ calls = <<>>
    /\ visits = <<>>
    /\ missing_cases = {}
    /\ prev_fs = fs
    /\ prev_pc = "none"

\* adaptive_staple_threshold and the fixed threshold on one map.
ApplyThreshold ==
    /\ pc = "stage"
    /\ \E prob \in [1..RefSize[1] -> ProbValues], a \in BinaryVolumes,
          b \in {<<0, 0, 0, 0>>, <<0, 0, 1, 1>>} :
         calls' = <<[kind |-> "threshold",
                     prob |-> Materialize(prob),
                     segmentations |-> <<RaterImage(a), RaterImage(b)>>,
                     adaptive |-> Materialize(adaptive_staple_threshold(
                                     prob, <<RaterImage(a), RaterImage(b)>>)),
                     fixed |-> Materialize(FixedThreshold(prob, DefaultThreshold))]>>
    /\ pc' = "thresholded"
    /\ UNCHANGED <<fs, staple_params, run, idx, segmentation_paths, visits,
                   missing_cases, prev_fs, prev_pc>>

\* enhance_vessel_connectivity on one binary mask.
ApplyEnhance ==
    /\ pc = "stage"
    /\ \E binary_mask \in BinaryVolumes, vessel_radius_mm \in RadiiMm,
          min_vessel_length_mm \in LengthsMm :
         calls' = <<[kind |-> "enhance",
                     binary_mask |-> binary_mask,
                     vessel_radius_mm |-> vessel_radius_mm,
                     min_vessel_length_mm |-> min_vessel_length_mm,
                     enhanced |-> Materialize(enhance_vessel_connectivity(
                                     binary_mask, RefImage, vessel_radius_mm,
                                     min_vessel_length_mm))]>>
    /\ pc' = "enhanced"
    /\ UNCHANGED <<fs, staple_params, run, idx, segmentation_paths, visits,
                   missing_cases, prev_fs, prev_pc>>

\* staple_filter.Execute on one rater set, up to the loop: the initial W
\* and the prior.
ApplyExecute ==
    /\ pc = "stage"
    /\ \E segs \in RaterSets :
         calls' = <<[kind |-> "execute",
                     segmentations |-> segs,
                     W |-> Materialize(InitialW(segs)),
                     g |-> Prior(InitialW(segs)),
                     p |-> [i \in DOMAIN segs |-> 0 - 10 * Unit],
                     q |-> [i \in DOMAIN segs |-> 0 - 10 * Unit],
                     lastp |-> [i \in DOMAIN segs |-> 0 - 10 * Unit],
                     lastq |-> [i \in DOMAIN segs |-> 0 - 10 * Unit],
                     iter |-> 0,
                     done |-> FALSE]>>
    /\ pc' = "iterating"
    /\ UNCHANGED <<fs, staple_params, run, idx, segmentation_paths, visits,
                   missing_cases, prev_fs, prev_pc>>

\* One iteration of the loop inside Execute: M-step, E-step and the test
\* for leaving; W is the probability map when the loop is left, p and q
\* the rates of this iteration, lastp and lastq those of the one before.
EMIterate ==
    /\ pc = "iterating"
    /\ \E e \in {calls[1]} :
       \E p \in {Materialize([i \in DOMAIN e.segmentations |->
                                 Sensitivity(e.segmentations[i], e.W)])},
          q \in {Materialize([i \in DOMAIN e.segmentations |->
                                 Specificity(e.segmentations[i], e.W)])} :
       \E stops \in {EMStops(p, q, e.p, e.q, e.iter)} :
          /\ calls' = <<[e EXCEPT
                 !.W = Materialize(EStep(e.segmentations, p, q, e.g)),
                 !.p = p,
                 !.q = q,
                 !.lastp = e.p,
                 !.lastq = e.q,
                 !.iter = IF e.iter < MaxEMIter THEN e.iter + 1 ELSE e.iter,
                 !.done = stops]>>
          /\ pc' = IF stops THEN "estimated" ELSE "iterating"
    /\ UNCHANGED <<fs, staple_params, run, idx, segmentation_paths, visits,
                   missing_cases, prev_fs, prev_pc>>

\* convert_to_binary_mask on one raw label volume, then
\* verify_segmentation_values on its result.
ApplyConvert ==
    /\ pc = "stage"
    /\ \E raw \in [1..RefSize[1] -> LabelValues] :
         \E binary_seg \in {convert_to_binary_mask(Mask(Materialize(raw)))} :
            calls' = <<[kind |-> "convert",
                        raw |-> Materialize(raw),
                        binary |-> binary_seg.data,
                        verified |-> verify_segmentation_values(binary_seg)]>>
    /\ pc' = "converted"
    /\ UNCHANGED <<fs, staple_params, run, idx, segmentation_paths, visits,
                   missing_cases, prev_fs, prev_pc>>

\* The dataset directories a MedicalImageDataset is constructed on, as
\* path components: the current directory (Path('.') has none), a relative
\* directory, the directory of the command line example, an absolute one
\* (the root is the empty first component), and two that hold a component
\* named like the output directory.
BasePaths ==
    { <<>>,
      <<"VESSELVERSE_DATA_IXI">>,
      base_path,
      <<"", "data", "VESSELVERSE_DATA_IXI">>,
      <<"STAPLE">>,
      <<"", "STAPLE", "STAPLE", "VESSELVERSE_DATA_IXI">> }

\* self.paths['STAPLE'] / source_path.relative_to(self.paths[base_model])
\* for a dataset on any directory.
OutputPathAt(base, case) == base \o <<"STAPLE", CaseFiles[case]>>

\* The two output paths compute_staple builds for one case.
ApplyOutputPaths ==
    /\ pc = "stage"
    /\ \E base \in BasePaths, case \in 1..Len(CaseFiles) :
         calls' = <<[kind |-> "paths",
                     base_path |-> base,
                     output_path |-> OutputPathAt(base, case),
                     base_output_path |->
                         BaseOutputPath(OutputPathAt(base, case))]>>
    /\ pc' = "paths"
    /\ UNCHANGED <<fs, staple_params, run, idx, segmentation_paths, visits,
                   missing_cases, prev_fs, prev_pc>>

\* The component labelling of analyze_vessel_characteristics and
\* enhance_vessel_connectivity on one binary slice.
ApplyComponents ==
    /\ pc = "stage"
    /\ \E foreground \in SUBSET Grid :
         calls' = <<[kind |-> "components",
                     foreground |-> foreground,
                     components |-> GridComponents(foreground)]>>
    /\ pc' = "labelled"
    /\ UNCHANGED <<fs, staple_params, run, idx, segmentation_paths, visits,
                   missing_cases, prev_fs, prev_pc>>

NextStage ==
    \/ ApplyThreshold
    \/ ApplyEnhance
    \/ ApplyExecute
    \/ EMIterate
    \/ ApplyConvert
    \/ ApplyComponents
    \/ ApplyOutputPaths

SpecStage == InitStage /\ [][NextStage]_vars

\* The loop is sequential code inside one call: an iteration that can run
\* does run.
SpecStageFair == SpecStage /\ WF_vars(EMIterate)

-----------------------------------------------------------------------------

(* create_staple_consensus statement by statement *)

\* One event of the call: a stage, and the path index of the mask it
\* touched (0 for a stage on the whole list).
Event(what, k) == [case |-> k, what |-> what]

InitSteps ==
    /\ \E first \in DirectLayouts :
         fs = FileSystem([c \in Cases |->
                  IF c = 1 THEN first
                  ELSE CaseLayout(RefImage, MaskA, MaskB, NoFile, NoFile, NoFile)])
    /\ staple_params = [visualize |-> FALSE]
    /\ run = 1
    /\ pc = "arguments"
    /\ idx = 1
    /\ segmentation_paths = <<>>
    /\ calls = <<>>
    /\ visits = <<>>
    /\ missing_cases = {}
    /\ prev_fs = fs
    /\ prev_pc = "none"

\* The caller fixes the arguments of the call.
StepArguments ==
    /\ pc = "arguments"
    /\ segmentation_paths' \in PathLists(1)
    /\ \E threshold \in CallThresholds, pre, adaptive, enhance \in BOOLEAN :
         calls' = <<[kind |-> "steps",
                     original_image_path |-> SourcePath(1),
                     output_path |-> OutputPath(1),
                     confidence_threshold |-> threshold,
                     do_preprocessing |-> pre,
                     do_adaptive_thresholding |-> adaptive,
                     do_vessel_enhancement |-> enhance,
                     segmentations |-> <<>>,
                     status |-> "running",
                     error |-> ""]>>
    /\ pc' = "count"
    /\ UNCHANGED <<fs, staple_params, run, idx, visits, missing_cases,
                   prev_fs, prev_pc>>

\* if len(segmentation_paths) < 2: raise.
StepCount ==
    /\ pc = "count"
    /\ visits' = Append(visits, Event("count", 0))
    /\ IF Len(segmentation_paths) < 2
       THEN /\ calls' = <<[calls[1] EXCEPT
                   !.status = "raised",
                   !.error = "STAPLE requires at least 2 segmentations"]>>
            /\ pc' = "raised"
       ELSE /\ pc' = "read_original"
            /\ UNCHANGED calls
    /\ UNCHANGED <<fs, staple_params, run, idx, segmentation_paths,
                   missing_cases, prev_fs, prev_pc>>

\* original_image = sitk.ReadImage(original_image_path).
StepReadOriginal ==
    /\ pc = "read_original"
    /\ IF ~Readable(fs[calls[1].original_image_path])
       THEN /\ calls' = <<[calls[1] EXCEPT
                   !.status = "raised",
                   !.error = "Error reading original image"]>>
            /\ pc' = "raised"
       ELSE /\ pc' = "load"
            /\ UNCHANGED calls
    /\ idx' = 1
    /\ UNCHANGED <<fs, staple_params, run, segmentation_paths, visits,
                   missing_cases, prev_fs, prev_pc>>

\* One round of the read loop: a missing path is passed over; a read,
\* convert_to_binary_mask, verify_segmentation_values or CopyInformation
\* that raises ends the call; otherwise the mask is appended.
StepLoadMask ==
    /\ pc = "load"
    /\ idx <= Len(segmentation_paths)
    /\ \E f \in {fs[segmentation_paths[idx]]},
          original_image \in {fs[calls[1].original_image_path]} :
         \E outcome \in {LoadOutcome(f, original_image)} :
            /\ visits' =
                 IF outcome = "dropped" THEN visits
                 ELSE IF ~Readable(f) THEN visits
                 ELSE IF outcome = "raises"
                      THEN visits \o <<Event("normalize", idx)>>
                 ELSE visits \o <<Event("normalize", idx),
                                  Event("copy_information", idx)>>
            /\ calls' =
                 IF outcome = "raises"
                 THEN <<[calls[1] EXCEPT
                           !.status = "raised",
                           !.error = "Error reading segmentation"]>>
                 ELSE IF outcome = "loaded"
                 THEN <<[calls[1] EXCEPT
                           !.segmentations =
                               Append(@, LoadedMask(f, original_image))]>>
                 ELSE calls
            /\ pc' = IF outcome = "raises" THEN "raised" ELSE "load"
            /\ idx' = IF outcome = "raises" THEN idx ELSE idx + 1
    /\ UNCHANGED <<fs, staple_params, run, segmentation_paths,
                   missing_cases, prev_fs, prev_pc>>

\* After the read loop: the bare return on an empty list, else
\* verify_spatial_consistency on the list.
StepValidate ==
    /\ pc = "load"
    /\ idx > Len(segmentation_paths)
    /\ IF calls[1].segmentations = <<>>
       THEN /\ calls' = <<[calls[1] EXCEPT
                   !.status = "none",
                   !.error = "No valid segmentations found"]>>
            /\ pc' = "exit"
            /\ UNCHANGED visits
       ELSE \E checked \in {verify_spatial_consistency(
                               fs[calls[1].original_image_path],
                               calls[1].segmentations)} :
            /\ visits' = Append(visits, Event("validate", 0))
            /\ calls' = IF checked = "ok" THEN calls
                        ELSE <<[calls[1] EXCEPT !.status = "raised",
                                                !.error = checked]>>
            /\ pc' = IF checked = "ok" THEN "estimate" ELSE "raised"
    /\ UNCHANGED <<fs, staple_params, run, idx, segmentation_paths,
                   missing_cases, prev_fs, prev_pc>>

\* Preprocessing, estimation, thresholding and enhancement, in the order of
\* the statements.
StepEstimate ==
    /\ pc = "estimate"
    /\ visits' = visits
          \o (IF calls[1].do_preprocessing
              THEN <<Event("preprocess", 0)>> ELSE <<>>)
          \o <<Event("estimate", 0), Event("threshold", 0)>>
          \o (IF calls[1].do_vessel_enhancement
              THEN <<Event("enhance", 0)>> ELSE <<>>)
    /\ pc' = "persist"
    /\ UNCHANGED <<fs, staple_params, run, idx, segmentation_paths, calls,
                   missing_cases, prev_fs, prev_pc>>

\* CopyInformation(original_image) and sitk.WriteImage.
StepPersist ==
    /\ pc = "persist"
    /\ visits' = Append(visits, Event("persist", 0))
    /\ \E write_ok \in BOOLEAN :
         IF write_ok
         THEN /\ fs' = [fs EXCEPT ![calls[1].output_path] =
                          ConsensusMask(calls[1].segmentations,
                                        fs[calls[1].original_image_path],
                                        calls[1].confidence_threshold,
                                        calls[1].do_preprocessing,
                                        calls[1].do_adaptive_thresholding,
                                        calls[1].do_vessel_enhancement)]
              /\ calls' = <<[calls[1] EXCEPT !.status = "returned"]>>
              /\ pc' = "exit"
         ELSE /\ calls' = <<[calls[1] EXCEPT
                     !.status = "raised",
                     !.error = "Error saving consensus segmentation"]>>
              /\ pc' = "raised"
              /\ UNCHANGED fs
    /\ UNCHANGED <<staple_params, run, idx, segmentation_paths,
                   missing_cases, prev_fs, prev_pc>>

NextSteps ==
    \/ StepArguments
    \/ StepCount
    \/ StepReadOriginal
    \/ StepLoadMask
    \/ StepValidate
    \/ StepEstimate
    \/ StepPersist

SpecSteps == InitSteps /\ [][NextSteps]_vars

-----------------------------------------------------------------------------

(* SegmentationTracker.track_history *)

\* The normalized segmentation paths of the metadata files.
TrackedPaths == {"seg_a", "seg_b", "seg_c"}

\* What _find_metadata_entry and the inference from the path give for a
\* path: no entry, or an entry with its original_segmentation_path (the
\* empty string when the key is missing or empty).
NoEntry == [found |-> FALSE, original_segmentation_path |-> ""]

MetadataEntry(original_segmentation_path) ==
    [found |-> TRUE, original_segmentation_path |-> original_segmentation_path]

MetadataEntries ==
    {NoEntry} \cup {MetadataEntry(p) : p \in TrackedPaths \cup {""}}

\* The path was seen before.
RevisitsNever(current_path, visited_paths) == FALSE

\* str(current_path) in visited_paths
Revisits(current_path, visited_paths) == current_path \in visited_paths

\* The metadata files, the files on disk and the path asked for.
InitTrack ==
    /\ fs = FileSystem([c \in Cases |->
                CaseLayout(RefImage, MaskA, MaskB, NoFile, NoFile, NoFile)])
    /\ staple_params = [visualize |-> FALSE]
    /\ run = 1
    /\ pc = "while"
    /\ idx = 1
    /\ segmentation_paths = <<>>
    /\ \E metadata \in [TrackedPaths -> MetadataEntries],
          existing \in SUBSET TrackedPaths,
          seg_path \in TrackedPaths :
         calls = <<[kind |-> "track",
                    metadata |-> metadata,
                    existing |-> existing,
                    current_path |-> seg_path,
                    visited_paths |-> {},
                    history |-> <<>>]>>
    /\ visits = <<>>
    /\ missing_cases = {}
    /\ prev_fs = fs
    /\ prev_pc = "none"

\* The while condition fails: return history.
TrackLoopExit ==
    /\ pc = "while"
    /\ \/ Revisits(calls[1].current_path, calls[1].visited_paths)
       \/ calls[1].current_path \notin calls[1].existing
    /\ pc' = "returned"
    /\ UNCHANGED <<fs, staple_params, run, idx, segmentation_paths, calls,
                   visits, missing_cases, prev_fs, prev_pc>>

\* One round of the while loop that breaks: no entry for the path, no
\* original_segmentation_path in the entry, or an original path seen
\* before.
TrackBreak ==
    /\ pc = "while"
    /\ ~Revisits(calls[1].current_path, calls[1].visited_paths)
    /\ calls[1].current_path \in calls[1].existing
    /\ \E t \in {calls[1]} :
       \E entry \in {t.metadata[t.current_path]} :
          /\ \/ ~entry.found
             \/ entry.original_segmentation_path = ""
             \/ Revisits(entry.original_segmentation_path,
                         t.visited_paths \cup {t.current_path})
          /\ calls' = <<[t EXCEPT
                 !.visited_paths = @ \cup {t.current_path},
                 !.history = IF entry.found
                             THEN Append(@, t.current_path) ELSE @,
                 !.current_path =
                     IF entry.found /\ entry.original_segmentation_path # ""
                     THEN entry.original_segmentation_path ELSE @]>>
    /\ pc' = "returned"
    /\ UNCHANGED <<fs, staple_params, run, idx, segmentation_paths, visits,
                   missing_cases, prev_fs, prev_pc>>

\* One round of the while loop that goes on to the original path.
TrackFollow ==
    /\ pc = "while"
    /\ ~Revisits(calls[1].current_path, calls[1].visited_paths)
    /\ calls[1].current_path \in calls[1].existing
    /\ \E t \in {calls[1]} :
       \E entry \in {t.metadata[t.current_path]} :
          /\ entry.found
          /\ entry.original_segmentation_path # ""
          /\ ~Revisits(entry.original_segmentation_path,
                       t.visited_paths \cup {t.current_path})
          /\ calls' = <<[t EXCEPT
                 !.visited_paths = @ \cup {t.current_path},
                 !.history = Append(@, t.current_path),
                 !.current_path = entry.original_segmentation_path]>>
    /\ UNCHANGED <<fs, staple_params, run, pc, idx, segmentation_paths,
                   visits, missing_cases, prev_fs, prev_pc>>

NextTrack ==
    \/ TrackLoopExit
    \/ TrackBreak
    \/ TrackFollow

SpecTrack == InitTrack /\ [][NextTrack]_vars

\* The loop is sequential code: a round that can run does run.
SpecTrackFair == SpecTrack /\ WF_vars(NextTrack)

-----------------------------------------------------------------------------

(* Properties of the batch and of the pipeline *)

Last(s) == s[Len(s)]

\* The invocations of this run made for a case, in order.
CallsOf(case) == SelectSeq(calls, LAMBDA call : call.case = case)

\* The run has ended, by returning or by an exception.
RunOver == pc \in {"verify", "exit", "raised"}

\* The loop is past the case: it moved on, or the run ended.
Passed(case) == idx > case \/ RunOver

\* The files of the two outputs of a case are as they were when the run
\* started.
OutputsUntouched(case) ==
    /\ fs[OutputPath(case)] = prev_fs[OutputPath(case)]
    /\ fs[BaseOutputPath(OutputPath(case))] =
           prev_fs[BaseOutputPath(OutputPath(case))]

\* C1: a failure of create_staple_consensus in one case does not stop the
\* batch: when the run is over, every case of sorted(files) was reached by
\* the loop, and the outputs of the cases that were not invoked are as
\* before.
C1_FailureDoesNotStopBatch ==
    RunOver =>
        /\ \A c \in Cases : \E i \in DOMAIN visits : visits[i].case = c
        /\ \A c \in Cases : CallsOf(c) = <<>> => OutputsUntouched(c)

\* C2: every case that compute_staple processes gets exactly two
\* invocations with the same reference image and the same path list: first
\* the enhanced one with the three stages enabled, then the base one with
\* the three stages disabled.
C2_TwoInvocationsPerCase ==
    \A i \in DOMAIN visits :
        (visits[i].what = "processing" /\ Passed(visits[i].case)) =>
            LET mine == CallsOf(visits[i].case)
            IN /\ Len(mine) = 2
               /\ mine[1].kind = "enhanced"
               /\ mine[1].do_preprocessing
               /\ mine[1].do_adaptive_thresholding
               /\ mine[1].do_vessel_enhancement
               /\ mine[2].kind = "base"
               /\ ~mine[2].do_preprocessing
               /\ ~mine[2].do_adaptive_thresholding
               /\ ~mine[2].do_vessel_enhancement
               /\ mine[1].original_image_path = mine[2].original_image_path
               /\ mine[1].segmentation_paths = mine[2].segmentation_paths

\* C3: in the base run of a batch started through the command line with no
\* confidence_threshold configured, the threshold is 0.5: a voxel of the
\* output is foreground iff its probability is strictly greater than 0.5.
\* Stated right after a base run that returned, for a path list that does
\* not hold the base output itself, so that the files read are still there.
C3_BaseRunThresholdIsHalf ==
    ( /\ pc = "loop"
      /\ calls # <<>>
      /\ Last(calls).kind = "base"
      /\ Last(calls).status = "returned"
      /\ "confidence_threshold" \notin DOMAIN staple_params
      /\ Last(calls).output_path \notin Range(Last(calls).segmentation_paths) )
    => LET call == Last(calls)
           original_image == fs[call.original_image_path]
           prob == STAPLEExecute(
                       LoadAll(fs, call.segmentation_paths, original_image))
       IN /\ call.confidence_threshold = DefaultThreshold
          /\ \A v \in DOMAIN prob :
                 (fs[call.output_path].data[v] > 0) <=>
                     (prob[v] # NaN /\ prob[v] > DefaultThreshold)

\* C4: create_staple_consensus never estimates on fewer than 2 loaded masks:
\* whenever fewer than 2 masks are loaded (paths that do not exist are
\* dropped) the call fails with the insufficient-raters error, without
\* estimating and without writing.
C4_NeverEstimatesOnFewerThanTwo ==
    \A i \in DOMAIN calls :
        LET call == calls[i]
            loadable == {k \in DOMAIN call.segmentation_paths :
                            Readable(prev_fs[call.segmentation_paths[k]])}
        IN (Readable(prev_fs[call.original_image_path])
              /\ Cardinality(loadable) < 2
              /\ \A k \in DOMAIN call.segmentation_paths :
                     prev_fs[call.segmentation_paths[k]].kind # "corrupt")
           => /\ call.status = "raised"
              /\ call.error = "STAPLE requires at least 2 segmentations"
              /\ ~call.estimated
              /\ fs = prev_fs

SizeDiffers(call, k) ==
    /\ Readable(prev_fs[call.original_image_path])
    /\ Readable(prev_fs[call.segmentation_paths[k]])
    /\ prev_fs[call.segmentation_paths[k]].size #
           prev_fs[call.original_image_path].size

\* C6: if a rater mask's voxel dimensions differ from the reference image's,
\* create_staple_consensus aborts with an error before the estimation and
\* writes no file.
C6_SizeMismatchAborts ==
    \A i \in DOMAIN calls :
        (\E k \in DOMAIN calls[i].segmentation_paths : SizeDiffers(calls[i], k))
        => /\ calls[i].status = "raised"
           /\ ~calls[i].estimated
           /\ fs = prev_fs

\* A call on two masks, the first congruent and the second of other
\* dimensions, was aborted on reading the second.
C6_Witness ==
    /\ calls # <<>>
    /\ Len(calls[1].segmentation_paths) = 2
    /\ ~SizeDiffers(calls[1], 1)
    /\ Readable(prev_fs[calls[1].segmentation_paths[1]])
    /\ SizeDiffers(calls[1], 2)
    /\ calls[1].error = "Error reading segmentation"
    /\ pc = "raised"

\* The file at path k of a call is a readable mask of the reference's
\* dimensions whose spacing is off by more than 0.1% on some axis.
SpacingDiffers(call, k) ==
    LET seg == prev_fs[call.segmentation_paths[k]]
        ref == prev_fs[call.original_image_path]
    IN /\ Readable(ref)
       /\ Readable(seg)
       /\ seg.size = ref.size
       /\ \E a \in DOMAIN ref.spacing :
              Abs(seg.spacing[a] - ref.spacing[a]) * 1000 > ref.spacing[a]

\* C7: if a rater mask file has the reference's voxel dimensions but a
\* spacing more than 0.1% off on some axis, create_staple_consensus aborts
\* and writes no output.
C7_SpacingMismatchAborts ==
    \A i \in DOMAIN calls :
        (\E k \in DOMAIN calls[i].segmentation_paths : SpacingDiffers(calls[i], k))
        => /\ calls[i].status = "raised"
           /\ fs = prev_fs

C9_SkipAndForcePolicy ==
    \A c \in Cases :
        /\ (~force_recompute /\ Exists(prev_fs, OutputPath(c)))
           => (CallsOf(c) = <<>> /\ OutputsUntouched(c))
        /\ (force_recompute /\ RunOver
              /\ Len(SegmentationPaths(prev_fs, c)) >= 2)
           => /\ Len(CallsOf(c)) = 2
              /\ CallsOf(c)[1].kind = "enhanced"
              /\ CallsOf(c)[2].kind = "base"

\* The mask files of the case's own name among the listed models.
OwnModels(fsys, case) ==
    SelectSeq(models_list, LAMBDA m : Exists(fsys, RawPath(m, case)))

OwnPaths(fsys, case) ==
    [k \in DOMAIN OwnModels(fsys, case) |-> RawPath(OwnModels(fsys, case)[k], case)]

\* C10: the outputs of a case depend only on the case's own reference image
\* and mask files: every mask an invocation reads is a file of the case, and
\* the enhanced output written is the pipeline's result on the case's own
\* files, whatever the other cases of the batch are.
C10_OutputsDependOnOwnFilesOnly ==
    \A i \in DOMAIN calls :
        /\ \A k \in DOMAIN calls[i].segmentation_paths :
               Last(calls[i].segmentation_paths[k]) = CaseFiles[calls[i].case]
        /\ (calls[i].kind = "enhanced" /\ calls[i].status = "returned")
           => fs[calls[i].output_path] =
                  create_staple_consensus(
                      prev_fs, SourcePath(calls[i].case),
                      OwnPaths(prev_fs, calls[i].case), calls[i].output_path,
                      confidence_threshold, TRUE, TRUE, TRUE, TRUE
                  ).fs[calls[i].output_path]

\* The masks a call estimates from (preprocessed if the call asks for it)
\* and its probability map, recomputed from the files the call was given.
CallSegs(call) ==
    LET loaded == LoadAll(prev_fs, call.segmentation_paths,
                          prev_fs[call.original_image_path])
    IN IF call.do_preprocessing
       THEN [i \in DOMAIN loaded |-> preprocess_segmentation(loaded[i])]
       ELSE loaded

CallProb(call) == STAPLEExecute(CallSegs(call))

\* Voxels where at least one of the call's masks is foreground.
Candidate(call) ==
    {v \in 1..NumVoxels(prev_fs[call.original_image_path]) :
        \E i \in DOMAIN CallSegs(call) : CallSegs(call)[i].data[v] = 1}

\* n, sum and n^2 * variance of the probabilities of a region.
RegionSum(prob, region) ==
    SumSeq([v \in DOMAIN prob |-> IF v \in region THEN prob[v] ELSE 0])

RegionSpread(prob, region) ==
    Cardinality(region)
        * SumSeq([v \in DOMAIN prob |-> IF v \in region THEN prob[v] * prob[v] ELSE 0])
    - RegionSum(prob, region) * RegionSum(prob, region)

\* x > mean - stddev and x > mean + stddev over a region, n times each side
\* and squared (n * stddev is the root of RegionSpread); false if the region
\* is empty or holds a NaN.
Defined(x, prob, region) ==
    x # NaN /\ region # {} /\ \A v \in region : prob[v] # NaN

ExceedsMeanMinusStd(x, prob, region) ==
    LET d == Cardinality(region) * x - RegionSum(prob, region)
    IN /\ Defined(x, prob, region)
       /\ \/ d > 0
          \/ d = 0 /\ RegionSpread(prob, region) > 0
          \/ d < 0 /\ d * d < RegionSpread(prob, region)

ExceedsMeanPlusStd(x, prob, region) ==
    LET d == Cardinality(region) * x - RegionSum(prob, region)
    IN /\ Defined(x, prob, region)
       /\ d > 0
       /\ d * d > RegionSpread(prob, region)

\* A call that returned the thresholded mask of adaptive mode as it is.
AdaptiveUnenhanced(call) ==
    /\ call.status = "returned"
    /\ call.do_adaptive_thresholding
    /\ ~call.do_vessel_enhancement

\* C11: in adaptive mode, with candidate the voxels where some
\* (preprocessed) rater mask is foreground and background the others, an
\* output voxel is foreground iff it is in candidate and P > lower =
\* mean(P|candidate) - stddev(P|candidate), or in background and P > higher
\* = mean(P|background) + stddev(P|background).
C11_AdaptiveRule ==
    \A i \in DOMAIN calls :
        AdaptiveUnenhanced(calls[i]) =>
            LET prob == CallProb(calls[i])
                candidate == Candidate(calls[i])
                background == (DOMAIN prob) \ candidate
            IN \A v \in DOMAIN prob :
                   (fs[calls[i].output_path].data[v] > 0) <=>
                       \/ v \in candidate
                          /\ ExceedsMeanMinusStd(prob[v], prob, candidate)
                       \/ v \in background
                          /\ ExceedsMeanPlusStd(prob[v], prob, background)

\* An adaptive call on two loaded masks wrote a mask with a candidate voxel
\* kept and a background voxel of defined probability left out.
C11_Witness ==
    /\ calls # <<>>
    /\ AdaptiveUnenhanced(calls[1])
    /\ calls[1].loaded = 2
    /\ \E v \in Candidate(calls[1]) : fs[calls[1].output_path].data[v] > 0
    /\ \E v \in DOMAIN CallProb(calls[1]) :
           /\ v \notin Candidate(calls[1])
           /\ CallProb(calls[1])[v] # NaN
           /\ fs[calls[1].output_path].data[v] = 0

\* C12: in adaptive mode, if the candidate region is empty or the background
\* region is empty, the thresholder falls back to fixed mode: the output is
\* ProbabilityMap > confidence_threshold.
C12_EmptyRegionFallsBackToFixed ==
    \A i \in DOMAIN calls :
        ( /\ AdaptiveUnenhanced(calls[i])
          /\ \/ Candidate(calls[i]) = {}
             \/ Candidate(calls[i]) = DOMAIN CallProb(calls[i]) )
        => \A v \in DOMAIN CallProb(calls[i]) :
               (fs[calls[i].output_path].data[v] > 0) <=>
                   /\ CallProb(calls[i])[v] # NaN
                   /\ CallProb(calls[i])[v] > calls[i].confidence_threshold

\* x < mean + stddev over a region, in the integers as above.
BelowMeanPlusStd(x, prob, region) ==
    LET d == Cardinality(region) * x - RegionSum(prob, region)
    IN /\ Defined(x, prob, region)
       /\ \/ d < 0
          \/ d * d < RegionSpread(prob, region)

\* The voxels where some mask of a rater set is foreground.
CandidateOf(segs) ==
    {v \in DOMAIN segs[1].data : \E i \in DOMAIN segs : segs[i].data[v] = 1}

\* The computed thresholds of a thresholder application satisfy
\* lower < 0.5 < higher.
ThresholdsStraddleHalf(app) ==
    /\ ExceedsMeanMinusStd(DefaultThreshold, app.prob,
                           CandidateOf(app.segmentations))
    /\ BelowMeanPlusStd(DefaultThreshold, app.prob,
                        (DOMAIN app.prob) \ CandidateOf(app.segmentations))

\* C13: for a probability map and rater set whose computed thresholds
\* satisfy lower < 0.5 < higher, the adaptive foreground inside the
\* candidate region contains the foreground of the fixed threshold 0.5
\* there, and the adaptive foreground inside the background region is
\* contained in the fixed-0.5 foreground there.
C13_AdaptiveBracketsFixedHalf ==
    \A i \in DOMAIN calls :
        (calls[i].kind = "threshold" /\ ThresholdsStraddleHalf(calls[i])) =>
            \A v \in DOMAIN calls[i].prob :
                /\ ( /\ v \in CandidateOf(calls[i].segmentations)
                     /\ calls[i].prob[v] # NaN
                     /\ calls[i].prob[v] > DefaultThreshold )
                   => calls[i].adaptive[v] = 1
                /\ ( /\ v \notin CandidateOf(calls[i].segmentations)
                     /\ calls[i].adaptive[v] = 1 )
                   => ( /\ calls[i].prob[v] # NaN
                        /\ calls[i].prob[v] > DefaultThreshold )

\* A thresholded map with lower < 0.5 < higher where the adaptive mask
\* keeps a candidate voxel the fixed threshold drops, and drops a
\* background voxel the fixed threshold keeps.
C13_Witness ==
    /\ calls # <<>>
    /\ calls[1].kind = "threshold"
    /\ ThresholdsStraddleHalf(calls[1])
    /\ \E v \in CandidateOf(calls[1].segmentations) :
           calls[1].adaptive[v] = 1 /\ calls[1].fixed[v] = 0
    /\ \E v \in DOMAIN calls[1].prob :
           /\ v \notin CandidateOf(calls[1].segmentations)
           /\ calls[1].adaptive[v] = 0
           /\ calls[1].fixed[v] = 1

\* The thresholded mask of a call, before any enhancement.
Thresholded(call) ==
    IF call.do_adaptive_thresholding
    THEN adaptive_staple_threshold(CallProb(call), CallSegs(call))
    ELSE FixedThreshold(CallProb(call), call.confidence_threshold)

\* Some (preprocessed) mask of the call has no foreground voxel, hence no
\* connected component to take statistics of.
StatsUndefined(call) ==
    \E i \in DOMAIN CallSegs(call) :
        \A v \in DOMAIN CallSegs(call)[i].data : CallSegs(call)[i].data[v] = 0

\* C14: with do_vessel_enhancement on, when the vessel statistics cannot be
\* computed (or the enhancement raises), create_staple_consensus does not
\* fail on that account, and the mask it writes and returns is exactly the
\* thresholded, unenhanced mask.
C14_EnhancementFailureFallsBack ==
    \A i \in DOMAIN calls :
        ( /\ calls[i].kind = "direct"
          /\ calls[i].do_vessel_enhancement
          /\ calls[i].estimated
          /\ StatsUndefined(calls[i]) )
        => /\ \/ calls[i].status = "returned"
              \/ calls[i].error = "Error saving consensus segmentation"
           /\ calls[i].status = "returned" =>
                  \A v \in DOMAIN Thresholded(calls[i]) :
                      fs[calls[i].output_path].data[v]
                          = Thresholded(calls[i])[v] * Unit

\* A call with enhancement on and a rater without foreground returned and
\* wrote a thresholded mask that has foreground.
C14_Witness ==
    /\ calls # <<>>
    /\ calls[1].kind = "direct"
    /\ calls[1].do_vessel_enhancement
    /\ calls[1].status = "returned"
    /\ StatsUndefined(calls[1])
    /\ \E v \in DOMAIN Thresholded(calls[1]) :
           /\ Thresholded(calls[1])[v] = 1
           /\ fs[calls[1].output_path].data[v] > 0

\* The closed mask and the minimum object size of an application of the
\* enhancement.
ClosedMask(app) ==
    BinaryErode(BinaryDilate(app.binary_mask,
                             KernelRadius(RefImage, app.vessel_radius_mm)),
                KernelRadius(RefImage, app.vessel_radius_mm))

MinSizeOf(app) ==
    MinObjectSize(RefImage, app.vessel_radius_mm, app.min_vessel_length_mm)

\* C15: after enhance_vessel_connectivity no connected component of the
\* returned mask has fewer voxels than min_object_size; every component of
\* the closed mask smaller than min_object_size is zeroed and every
\* component at or above it is kept.
C15_SmallComponentsRemoved ==
    \A i \in DOMAIN calls :
        calls[i].kind = "enhance" =>
            /\ \A c \in Components(calls[i].enhanced) :
                   Cardinality(c) >= MinSizeOf(calls[i])
            /\ \A c \in Components(ClosedMask(calls[i])) :
                   \A v \in c :
                       calls[i].enhanced[v] =
                           IF Cardinality(c) < MinSizeOf(calls[i]) THEN 0 ELSE 1

\* An enhancement with a minimum size of two voxels zeroed a component of
\* one voxel and kept a component of exactly two.
C15_Witness ==
    /\ calls # <<>>
    /\ calls[1].kind = "enhance"
    /\ MinSizeOf(calls[1]) = 2
    /\ \E c \in Components(ClosedMask(calls[1])) :
           Cardinality(c) = 1 /\ \A v \in c : calls[1].enhanced[v] = 0
    /\ \E c \in Components(ClosedMask(calls[1])) :
           Cardinality(c) = 2 /\ \A v \in c : calls[1].enhanced[v] = 1

\* C16: every mask create_staple_consensus writes, whatever the three do_*
\* flags and whether or not the enhancement fell back to the unenhanced
\* mask, carries the spacing, origin and direction of the reference image.
C16_OutputCarriesReferenceGeometry ==
    \A i \in DOMAIN calls :
        (calls[i].kind = "direct" /\ calls[i].status = "returned") =>
            /\ fs[calls[i].output_path].kind = "image"
            /\ fs[calls[i].output_path].spacing
                   = prev_fs[calls[i].original_image_path].spacing
            /\ fs[calls[i].output_path].origin
                   = prev_fs[calls[i].original_image_path].origin
            /\ fs[calls[i].output_path].direction
                   = prev_fs[calls[i].original_image_path].direction

\* A call in adaptive mode whose enhancement fell back wrote a mask with
\* the origin of the reference, which none of its rater files has.
C16_Witness ==
    /\ calls # <<>>
    /\ calls[1].kind = "direct"
    /\ calls[1].status = "returned"
    /\ calls[1].do_adaptive_thresholding
    /\ calls[1].do_vessel_enhancement
    /\ StatsUndefined(calls[1])
    /\ fs[calls[1].output_path].origin = "ref_origin"
    /\ \A k \in DOMAIN calls[1].segmentation_paths :
           prev_fs[calls[1].segmentation_paths[k]].kind = "image"
               => prev_fs[calls[1].segmentation_paths[k]].origin # "ref_origin"

\* C17: for every valid rater set (two or more congruent binary masks) the
\* estimation returns a probability map of the shape of the inputs with
\* every value in [0, 1].
C17_ProbabilityMapInUnitInterval ==
    \A i \in DOMAIN calls :
        (calls[i].kind = "execute" /\ calls[i].done) =>
            /\ DOMAIN calls[i].W = DOMAIN calls[i].segmentations[1].data
            /\ \A v \in DOMAIN calls[i].W :
                   /\ calls[i].W[v] # NaN
                   /\ 0 <= calls[i].W[v]
                   /\ calls[i].W[v] <= Unit

\* Every (preprocessed) mask of the call is background at every voxel.
AllBackground(call) ==
    \A i \in DOMAIN CallSegs(call) :
        \A v \in DOMAIN CallSegs(call)[i].data : CallSegs(call)[i].data[v] = 0

\* C19: if every one of two or more rater masks is all background, the
\* estimation returns an all-zero probability map without error, and the
\* consensus mask written is all zero.
C19_AllBackgroundShortCircuits ==
    \A i \in DOMAIN calls :
        ( /\ calls[i].kind = "direct"
          /\ calls[i].estimated
          /\ calls[i].loaded >= 2
          /\ AllBackground(calls[i]) )
        => /\ \A v \in DOMAIN CallProb(calls[i]) : CallProb(calls[i])[v] = 0
           /\ \/ calls[i].status = "returned"
              \/ calls[i].error = "Error saving consensus segmentation"
           /\ calls[i].status = "returned" =>
                  \A v \in DOMAIN fs[calls[i].output_path].data :
                      fs[calls[i].output_path].data[v] = 0

\* No sensitivity or specificity of the last iteration differs from the
\* one before by a tolerance or more; the tolerance is below the fixed-point
\* resolution, and an undefined rate is not a change.
BelowTolerance(e) ==
    \A i \in DOMAIN e.segmentations :
        /\ e.p[i] = NaN \/ e.p[i] = e.lastp[i]
        /\ e.q[i] = NaN \/ e.q[i] = e.lastq[i]

\* The loop is left only on convergence or at the cap, is left as soon as
\* either holds, and leaves a probability map over the voxels.
EMLeavesOnConvergenceOrCap ==
    \A i \in DOMAIN calls :
        calls[i].kind = "execute" =>
            /\ calls[i].iter <= MaxEMIter
            /\ calls[i].done =>
                   /\ BelowTolerance(calls[i]) \/ calls[i].iter = MaxEMIter
                   /\ DOMAIN calls[i].W = DOMAIN calls[i].segmentations[1].data
            /\ (~calls[i].done /\ calls[i].iter > 0) =>
                   /\ ~BelowTolerance(calls[i])
                   /\ calls[i].iter < MaxEMIter

LoopAgreesWithExecute ==
    \A i \in DOMAIN calls :
        (calls[i].kind = "execute" /\ calls[i].done) =>
            calls[i].W = STAPLEExecute(calls[i].segmentations)

\* The cases the report of main counts as successfully processed:
\* len(dataset) - len(missing_cases).
ReportedSucceeded == Cases \ missing_cases

\* C20: the batch gives every case exactly one status out of succeeded,
\* skipped for insufficient raters and failed, the counts add up to the
\* number of cases, and a case skipped for insufficient raters is counted
\* as skipped, not as failed or missing.
C20_SkippedIsNotMissing ==
    pc = "exit" =>
        /\ Cardinality(ReportedSucceeded) + Cardinality(missing_cases)
               = NumCases
        /\ \A i \in DOMAIN visits :
               visits[i].what = "insufficient" =>
                   /\ visits[i].case \notin missing_cases
                   /\ visits[i].case \notin ReportedSucceeded

\* The number of distinct values of a raw volume.
DistinctValues(raw) == Cardinality({raw[v] : v \in DOMAIN raw})

\* C21: convert_to_binary_mask on a raw label volume: with more than two
\* distinct values a voxel becomes 1 iff its value > 1.1, else 0; with at
\* most two distinct values a voxel becomes 1 iff its value > 0, else 0.
C21_NormalizationRule ==
    \A i \in DOMAIN calls :
        calls[i].kind = "convert" =>
            \A v \in DOMAIN calls[i].raw :
                calls[i].binary[v] =
                    IF DistinctValues(calls[i].raw) > 2
                    THEN (IF calls[i].raw[v] > 1100 THEN 1 ELSE 0)
                    ELSE (IF calls[i].raw[v] > 0 THEN 1 ELSE 0)

\* The call, taken statement by statement, ends as create_staple_consensus
\* taken as one function does.
StepsAgreeWithCall ==
    (pc \in {"exit", "raised"} /\ calls # <<>> /\ calls[1].kind = "steps") =>
        \E write_ok \in BOOLEAN :
            LET whole == create_staple_consensus(
                             prev_fs, calls[1].original_image_path,
                             segmentation_paths, calls[1].output_path,
                             calls[1].confidence_threshold,
                             calls[1].do_preprocessing,
                             calls[1].do_adaptive_thresholding,
                             calls[1].do_vessel_enhancement, write_ok)
            IN /\ whole.status = calls[1].status
               /\ whole.error = calls[1].error
               /\ whole.fs = fs

\* Every event of the first stage precedes every event of the second.
Precedes(before, after) ==
    \A i, j \in DOMAIN visits :
        (visits[i].what = before /\ visits[j].what = after) => i < j

\* C22: within one run of create_staple_consensus the stages execute in the
\* order validate (rater count, spatial congruence), normalize/preprocess,
\* estimate, threshold, enhance, persist: no mask is normalized or has its
\* header modified before the spatial validation.
C22_ValidateBeforeNormalize ==
    /\ Precedes("count", "normalize")
    /\ Precedes("validate", "normalize")
    /\ Precedes("validate", "copy_information")
    /\ Precedes("validate", "preprocess")
    /\ Precedes("preprocess", "estimate")
    /\ Precedes("estimate", "threshold")
    /\ Precedes("threshold", "enhance")
    /\ Precedes("enhance", "persist")
    /\ Precedes("threshold", "persist")

\* The mask the base run of a call's case writes when it is the only run:
\* the call's arguments on the files as they were when the batch started.
BaseRunAlone(call) ==
    create_staple_consensus(prev_fs, call.original_image_path,
                            call.segmentation_paths, call.output_path,
                            call.confidence_threshold, FALSE, FALSE, FALSE,
                            TRUE).fs[call.output_path]

\* C23: the two runs of a case share no estimation result: the base run
\* estimates from the normalized, unpreprocessed rater masks on its own, so
\* its output is the same whether or not the enhanced run was executed
\* before it.
C23_BaseRunIndependentOfEnhancedRun ==
    \A i \in DOMAIN calls :
        (calls[i].kind = "base" /\ calls[i].status = "returned") =>
            fs[calls[i].output_path] = BaseRunAlone(calls[i])

\* Two voxels touch along a face, an edge or at a corner.
Touch(u, v) ==
    u # v /\ Abs(u[1] - v[1]) <= 1 /\ Abs(u[2] - v[2]) <= 1

\* C24: the connected components of analyze_vessel_characteristics and of
\* enhance_vessel_connectivity are taken under 26-connectivity: two
\* foreground voxels that touch only along an edge or at a corner belong to
\* the same component.
C24_ComponentsFullyConnected ==
    \A i \in DOMAIN calls :
        calls[i].kind = "components" =>
            \A u, v \in calls[i].foreground :
                Touch(u, v) =>
                    \E c \in calls[i].components : u \in c /\ v \in c

\* pi * radius^2 * length / voxel volume on the reference grid (voxels of
\* 1 mm^3), rounded to the nearest integer, halves upwards.
RoundedMinSize(app) ==
    LET cylinder == (((app.vessel_radius_mm * app.vessel_radius_mm) \div Unit)
                        * app.min_vessel_length_mm) \div Unit
    IN (2 * Pi * cylinder + Unit * Unit) \div (2 * Unit * Unit)

\* C25: enhance_vessel_connectivity uses min_object_size = pi * radius_mm^2
\* * min_length_mm / voxel_volume_mm3 rounded to the nearest integer, a
\* fractional part of at least 0.5 rounding up: the components of the
\* closed mask below that size are removed.
C25_MinObjectSizeRounded ==
    \A i \in DOMAIN calls :
        calls[i].kind = "enhance" =>
            /\ MinSizeOf(calls[i]) = RoundedMinSize(calls[i])
            /\ \A c \in Components(ClosedMask(calls[i])) :
                   Cardinality(c) < RoundedMinSize(calls[i]) =>
                       \A v \in c : calls[i].enhanced[v] = 0

\* The rater mask files found for a case when the run started.
RaterFilesFound(case) ==
    {m \in RaterModels : ModelPathFound(prev_fs, m, case)}

\* C26: after compute_staple returns normally, every case for which at
\* least 2 rater mask files were found has both its enhanced and its base
\* output on disk, whatever files existed before the call (also when an
\* earlier run left the enhanced output but not the base output).
C26_BothOutputsAfterNormalReturn ==
    pc \in {"verify", "exit"} =>
        \A c \in Cases :
            Cardinality(RaterFilesFound(c)) >= 2 =>
                /\ Exists(fs, OutputPath(c))
                /\ Exists(fs, BaseOutputPath(OutputPath(c)))

\* The consensus outputs of a case.
ConsensusPaths(case) == {OutputPath(case), BaseOutputPath(OutputPath(case))}

\* C27: the rater path list compute_staple builds for a case never holds a
\* consensus output (the case's own STAPLE or STAPLE_base file): only
\* source segmentations are fused, and an existing consensus file never
\* counts towards the 'at least 2 segmentations' threshold.
C27_NoConsensusAmongRaters ==
    /\ \A i \in DOMAIN calls :
           \A k \in DOMAIN calls[i].segmentation_paths :
               calls[i].segmentation_paths[k] \notin ConsensusPaths(calls[i].case)
    /\ \A i \in DOMAIN visits :
           visits[i].what = "processing" =>
               Cardinality(RaterFilesFound(visits[i].case)) >= 2

\* C28: for every processed case the base output path differs from the
\* enhanced output path, so the base run never overwrites the enhanced
\* output written just before it.
C28_BasePathDiffersFromEnhancedPath ==
    \A i \in DOMAIN calls :
        calls[i].kind = "paths" =>
            calls[i].base_output_path # calls[i].output_path

\* C29: for every raw label volume the output of convert_to_binary_mask
\* holds only the values 0 and 1, so verify_segmentation_values does not
\* raise on a mask that has just been normalized.
C29_NormalizedMaskIsBinary ==
    \A i \in DOMAIN calls :
        calls[i].kind = "convert" =>
            /\ \A v \in DOMAIN calls[i].binary : calls[i].binary[v] \in {0, 1}
            /\ calls[i].verified

\* A volume of two distinct values, neither of them 1, was normalized to a
\* mask with both 0 and 1 that passed verify_segmentation_values.
C29_Witness ==
    /\ calls # <<>>
    /\ calls[1].kind = "convert"
    /\ DistinctValues(calls[1].raw) = 2
    /\ \A v \in DOMAIN calls[1].raw : calls[1].raw[v] # 1000
    /\ \E v \in DOMAIN calls[1].binary : calls[1].binary[v] = 1
    /\ \E v \in DOMAIN calls[1].binary : calls[1].binary[v] = 0
    /\ calls[1].verified

\* No path occurs twice in the history.
HistoryHasNoDuplicate ==
    \A i \in DOMAIN calls :
        calls[i].kind = "track" =>
            \A j, k \in DOMAIN calls[i].history :
                calls[i].history[j] = calls[i].history[k] => j = k

\* C30: track_history terminates for every metadata content, also when the
\* original_segmentation_path links form a cycle or point to themselves,
\* and the history it returns never holds the same path twice.
C30_TrackHistoryTerminates ==
    /\ []HistoryHasNoDuplicate
    /\ <>(pc = "returned")

\* track_history returned on links forming a cycle through all three
\* paths, each of them once in the history.
C30_Witness ==
    /\ pc = "returned"
    /\ calls[1].kind = "track"
    /\ Len(calls[1].history) = 3
    /\ calls[1].metadata[Last(calls[1].history)].original_segmentation_path
           = calls[1].history[1]

=============================================================================
